---- MODULE Spec2Model ----
(***************************************************************************)
(* Model of src/media-processing/media_cutter.py: the time codec           *)
(* (format_time / parse_time), the range state kept by MediaCutterApp      *)
(* (duration_seconds, start_seconds, end_seconds and the two time entry    *)
(* fields) and the external transcoder run (run_ffmpeg_cut) with its two   *)
(* callers, start_cutting_thread and batch_process_files.                  *)
(*                                                                         *)
(* Representation.  A Python float holding a time in seconds is an integer *)
(* number of ticks, TicksPerMs ticks to the millisecond, so values between *)
(* two milliseconds (slider positions, probe results) exist in the model.  *)
(* A tick value on the millisecond grid stands for the binary64 nearest to *)
(* n/1000; the one place where the binary rounding is observable, line 21  *)
(* of format_time, is computed by FloatFracMillis.  Text is a sequence of  *)
(* one-character strings.  An optional value (Python None or a value) is a *)
(* sequence of length 0 or 1.                                              *)
(***************************************************************************)
EXTENDS Integers, Sequences, FiniteSets, TLC

\* ---------------------------------------------------------------- bounds
TicksPerMs == 2     \* resolution of the modelled floats below a millisecond
MaxThreads == 1     \* worker threads created in one session
MaxBatch == 2       \* files selected for one batch
CodecSpan == 9      \* width, in ms, of each cluster of durations given to the codec
MaxFrac == 4        \* digits of the fractions given to parse_time
MaxAdds == 2        \* calls of add_recent_file in one session

\* ------------------------------------------------------- optional values
None == <<>>
Some(v) == <<v>>

\* ------------------------------------------------------------ text tools
DigitChars == <<"0", "1", "2", "3", "4", "5", "6", "7", "8", "9">>

IsDigit(c) == \E i \in 1..10 : DigitChars[i] = c

DigitVal(c) == (CHOOSE i \in 1..10 : DigitChars[i] = c) - 1

\* Python str(n) of a non-negative int
RECURSIVE NatStr(_)
NatStr(n) == IF n < 10 THEN <<DigitChars[n + 1]>>
             ELSE NatStr(n \div 10) \o <<DigitChars[(n % 10) + 1]>>

RECURSIVE Zeros(_)
Zeros(k) == IF k <= 0 THEN <<>> ELSE <<"0">> \o Zeros(k - 1)

\* Python f"{n:0w}": sign first, then zeros up to a total width of w
ZeroPad(n, w) ==
    IF n >= 0
    THEN Zeros(w - Len(NatStr(n))) \o NatStr(n)
    ELSE <<"-">> \o Zeros(w - 1 - Len(NatStr(-n))) \o NatStr(-n)

\* Python s[:k]
Prefix(s, k) == SubSeq(s, 1, IF Len(s) < k THEN Len(s) ELSE k)

\* Python s.split(sep) for a one-character separator
RECURSIVE SplitFrom(_, _, _, _)
SplitFrom(s, sep, i, cur) ==
    IF i > Len(s) THEN <<cur>>
    ELSE IF s[i] = sep THEN <<cur>> \o SplitFrom(s, sep, i + 1, <<>>)
    ELSE SplitFrom(s, sep, i + 1, Append(cur, s[i]))

split(s, sep) == SplitFrom(s, sep, 1, <<>>)

\* Python s.strip() for the blank character
RECURSIVE LStrip(_)
LStrip(s) == IF Len(s) > 0 /\ s[1] = " " THEN LStrip(Tail(s)) ELSE s

RECURSIVE RStrip(_)
RStrip(s) == IF Len(s) > 0 /\ s[Len(s)] = " "
             THEN RStrip(SubSeq(s, 1, Len(s) - 1)) ELSE s

\* the value of a string of decimal digits; an underscore between them
\* counts for nothing
RECURSIVE DigitsVal(_)
DigitsVal(s) ==
    IF Len(s) = 0 THEN 0
    ELSE IF s[Len(s)] = "_" THEN DigitsVal(SubSeq(s, 1, Len(s) - 1))
    ELSE 10 * DigitsVal(SubSeq(s, 1, Len(s) - 1)) + DigitVal(s[Len(s)])

\* an underscore of an integer literal: it stands between two digits
IsGrouping(body, i) ==
    /\ body[i] = "_"
    /\ 1 < i /\ i < Len(body)
    /\ IsDigit(body[i - 1]) /\ IsDigit(body[i + 1])

\* an integer literal without its sign: at least one digit
IsIntLiteral(body) ==
    /\ Len(body) > 0
    /\ \A i \in 1..Len(body) : IsDigit(body[i]) \/ IsGrouping(body, i)

Unsigned(t) == IF Len(t) > 0 /\ t[1] \in {"+", "-"} THEN Tail(t) ELSE t

IntOf(t) ==
    IF ~IsIntLiteral(Unsigned(t)) THEN None
    ELSE IF t[1] = "-" THEN Some(-DigitsVal(Unsigned(t)))
    ELSE Some(DigitsVal(Unsigned(t)))

\* Python int(s): blanks stripped, an optional sign, then decimal digits,
\* where a single underscore may stand between two digits; anything else
\* raises ValueError (None here)
int(s) == IntOf(RStrip(LStrip(s)))

\* ------------------------------------------------------ binary64 helpers
RECURSIVE Log2Floor(_)
Log2Floor(v) == IF v < 2 THEN 0 ELSE 1 + Log2Floor(v \div 2)

RECURSIVE Pow2(_)
Pow2(k) == IF k <= 0 THEN 1 ELSE 2 * Pow2(k - 1)

RECURSIVE Pow2Mod1000(_)
Pow2Mod1000(k) == IF k <= 0 THEN 1 ELSE (2 * Pow2Mod1000(k - 1)) % 1000

\* least t with k * 2^t >= 1000, for 1 <= k < 1000
RECURSIVE ShiftToThousand(_)
ShiftToThousand(k) == IF k >= 1000 THEN 0 ELSE 1 + ShiftToThousand(2 * k)

\* int((seconds - int(seconds)) * 1000) in binary64, for seconds the double
\* nearest to n/1000 (n >= 0 whole milliseconds).  With k = n mod 1000 and
\* e the binary exponent of seconds, the double is n/1000 rounded at 2^(e-52):
\* r is the remainder it drops.  The subtraction is exact, the product is
\* k - r/2^(52-e) and is rounded to nearest, and int() truncates: the result
\* is k unless the product rounds to a double below k.
FloatFracMillis(n) ==
    LET k == n % 1000
        S == n \div 1000
        e == IF S >= 1 THEN Log2Floor(S) ELSE -ShiftToThousand(k)
        r == (k * Pow2Mod1000(52 - e)) % 1000
        j == Log2Floor(k)
        ex == j - e - 1 - (IF k = Pow2(j) THEN 1 ELSE 0)
    IN  IF k = 0 THEN 0
        ELSE IF r = 0 \/ r >= 500 THEN k
        ELSE IF ex >= 9 THEN k
        ELSE IF ex < 0 THEN k - 1
        ELSE IF r <= Pow2(ex) THEN k ELSE k - 1

\* ------------------------------------------------------------ time codec
TicksPerSecond == 1000 * TicksPerMs

\* format_time with line 24 without % 3600
format_time_minutes_unwrapped(seconds) ==
    IF seconds = None \/ seconds[1] < 0
    THEN <<"0", "0", ":", "0", "0", ":", "0", "0", ".", "0", "0", "0">>
    ELSE LET t == seconds[1]
             n == t \div TicksPerMs
             millisec == IF t % TicksPerMs = 0 THEN FloatFracMillis(n)
                         ELSE n % 1000
             total_seconds == t \div TicksPerSecond
             hrs == total_seconds \div 3600
             mins == total_seconds \div 60
             secs == total_seconds % 60
         IN  ZeroPad(hrs, 2) \o <<":">> \o ZeroPad(mins, 2) \o <<":">>
             \o ZeroPad(secs, 2) \o <<".">> \o ZeroPad(millisec, 3)

\* format_time(seconds): seconds is None or Some(ticks)
format_time(seconds) ==
    IF seconds = None \/ seconds[1] < 0
    THEN <<"0", "0", ":", "0", "0", ":", "0", "0", ".", "0", "0", "0">>
    ELSE LET t == seconds[1]
             n == t \div TicksPerMs
             millisec == IF t % TicksPerMs = 0 THEN FloatFracMillis(n)
                         ELSE n % 1000
             total_seconds == t \div TicksPerSecond
             hrs == total_seconds \div 3600
             mins == (total_seconds % 3600) \div 60
             secs == total_seconds % 60
         IN  ZeroPad(hrs, 2) \o <<":">> \o ZeroPad(mins, 2) \o <<":">>
             \o ZeroPad(secs, 2) \o <<".">> \o ZeroPad(millisec, 3)

\* parse_time(time_str): None, or Some(ticks)
parse_time(time_str) ==
    LET parts == split(time_str, ":")
    IN  IF Len(parts) # 3 THEN None
        ELSE
        LET hrs == int(parts[1])
            mins == int(parts[2])
            sec_parts == split(parts[3], ".")
            secs == int(sec_parts[1])
            millisec == IF Len(sec_parts) > 1 THEN int(sec_parts[2]) ELSE Some(0)
        IN  IF hrs = None \/ mins = None \/ secs = None \/ millisec = None
            THEN None
            ELSE
            LET millisec_str == ZeroPad(millisec[1], 3)
                clamped == int(Prefix(millisec_str, 3))
            IN  IF clamped = None THEN None
                ELSE Some((hrs[1] * 3600 + mins[1] * 60 + secs[1]) * TicksPerSecond
                          + clamped[1] * TicksPerMs)


\* ------------------------------------------------------------- constants
\* the adjustment the slider handlers apply, 0.001 s
Epsilon == TicksPerMs

\* the entries add_recent_file keeps
RecentCapacity == 10

\* the modelled times: every tick of the 2 ms that follow 0 s and 1 s, the
\* first second in which line 21 of format_time loses a millisecond
Times == {b * TicksPerSecond + i : b \in 0..1, i \in 0..(2 * TicksPerMs)}

ZeroText == <<"0", "0", ":", "0", "0", ":", "0", "0", ".", "0", "0", "0">>

\* ----------------------------------------------------------------- paths
NoPath == [stem |-> "", suffix |-> "", ext |-> ""]

InputFiles == {[stem |-> "a", suffix |-> "", ext |-> ".mp4"],
               [stem |-> "b", suffix |-> "", ext |-> ".mp3"]}

Widgets == {"browse_input_button", "browse_output_button", "cut_button",
            "start_slider", "end_slider", "start_time_entry", "end_time_entry"}

\* ----------------------------------------------------------------- state
VARIABLES
    input_file,         \* self.input_file
    output_file,        \* self.output_file
    duration_seconds,   \* self.duration_seconds
    start_seconds,      \* self.start_seconds
    end_seconds,        \* self.end_seconds
    start_time_entry,   \* text of self.start_time_entry
    end_time_entry,     \* text of self.end_time_entry
    ui,                 \* state ("normal"/"disabled") of the widgets of set_ui_state
    shown,              \* the message boxes the last handler showed
    last_op,            \* the handler that ran last, with its argument and result
    progress_bar,       \* value of self.progress_bar, a fraction <<num, den>>
    runs,               \* the calls of run_ffmpeg_cut: runs[0] on the session
                        \* thread (batch), runs[i] on the i-th worker thread
    batch,              \* the batch_process_files call on the session thread
    codec,              \* the time codec applied on its own
    recent_files,       \* self.recent_files
    recent_files_dropdown,  \* the values of self.recent_files_dropdown
    config_file,        \* the document ~/.media_cutter_config.json
    recent_calls        \* the calls of add_recent_file made so far

range_vars == <<input_file, output_file, duration_seconds, start_seconds,
                end_seconds, start_time_entry, end_time_entry, ui>>

recent_vars == <<recent_files, recent_files_dropdown, config_file, recent_calls>>

vars == <<input_file, output_file, duration_seconds, start_seconds,
          end_seconds, start_time_entry, end_time_entry, ui, shown, last_op,
          progress_bar, runs, batch, codec, recent_files,
          recent_files_dropdown, config_file, recent_calls>>

\* ------------------------------------------------ the session as a value
\* The handlers below are functions from the fields of MediaCutterApp to the
\* fields after the call, so that a handler calling another one composes.
Self == [input_file |-> input_file, output_file |-> output_file,
         duration_seconds |-> duration_seconds,
         start_seconds |-> start_seconds, end_seconds |-> end_seconds,
         start_time_entry |-> start_time_entry,
         end_time_entry |-> end_time_entry,
         ui |-> ui, shown |-> <<>>,
         \* locals of the handler that ran, kept for last_op
         adjusted |-> FALSE, valid_start |-> FALSE, valid_end |-> FALSE]

Becomes(s) ==
    /\ input_file' = s.input_file
    /\ output_file' = s.output_file
    /\ duration_seconds' = s.duration_seconds
    /\ start_seconds' = s.start_seconds
    /\ end_seconds' = s.end_seconds
    /\ start_time_entry' = s.start_time_entry
    /\ end_time_entry' = s.end_time_entry
    /\ ui' = s.ui
    /\ shown' = s.shown

\* widget.configure(state=...) on each widget of ws
configure(s, ws, state) ==
    [s EXCEPT !.ui = [w \in Widgets |-> IF w \in ws THEN state ELSE s.ui[w]]]

showerror(s, message) == [s EXCEPT !.shown = Append(s.shown, message)]

\* the record of the handler that ran last: its name, whether a slider handler
\* took its adjusting branch, the valid_start and valid_end of
\* update_times_from_entry and the value validate_inputs returned
Op(name, s, result) ==
    [name |-> name, adjusted |-> s.adjusted, valid_start |-> s.valid_start,
     valid_end |-> s.valid_end, result |-> result]

\* ------------------------------------------------------- duration probe
\* what running ffprobe on the file can give
Durations == Times

ProbeOutcomes ==
    {[kind |-> "ok", duration |-> d] : d \in Durations}
    \cup {[kind |-> k, duration |-> 0] : k \in {"FileNotFoundError", "CalledProcessError"}}

MsgNoFFprobe == "FFprobe not found."

get_media_duration(probe) ==
    IF probe.kind = "ok"
    THEN [value |-> Some(probe.duration), shown |-> <<>>]
    ELSE IF probe.kind = "FileNotFoundError"
    THEN [value |-> None, shown |-> <<MsgNoFFprobe>>]
    ELSE [value |-> None, shown |-> <<>>]

\* load_media_info without lines 519-520
load_media_info_keeps_range(s, probe) ==
    IF s.input_file = NoPath THEN s
    ELSE
    LET got == get_media_duration(probe)
        duration == got.value
        t == [s EXCEPT !.shown = s.shown \o got.shown]
    IN  IF duration # None
        THEN configure(
               [t EXCEPT !.duration_seconds = duration[1],
                         !.start_time_entry = format_time(Some(s.start_seconds)),
                         !.end_time_entry = format_time(Some(s.end_seconds))],
               {"start_slider", "end_slider", "start_time_entry",
                "end_time_entry", "cut_button"}, "normal")
        ELSE configure(
               [t EXCEPT !.duration_seconds = 0],
               {"start_slider", "end_slider", "start_time_entry",
                "end_time_entry", "cut_button"}, "disabled")

\* ---------------------------------------------------------- range state
load_media_info(s, probe) ==
    IF s.input_file = NoPath THEN s
    ELSE
    LET got == get_media_duration(probe)
        duration == got.value
        t == [s EXCEPT !.shown = s.shown \o got.shown]
    IN  IF duration # None
        THEN configure(
               [t EXCEPT !.duration_seconds = duration[1],
                         !.start_seconds = 0,
                         !.end_seconds = duration[1],
                         !.start_time_entry = format_time(Some(0)),
                         !.end_time_entry = format_time(Some(duration[1]))],
               {"start_slider", "end_slider", "start_time_entry",
                "end_time_entry", "cut_button"}, "normal")
        ELSE configure(
               [t EXCEPT !.duration_seconds = 0],
               {"start_slider", "end_slider", "start_time_entry",
                "end_time_entry", "cut_button"}, "disabled")

suggest_output_path(s) ==
    IF s.input_file = NoPath THEN s
    ELSE [s EXCEPT !.output_file =
              [stem |-> s.input_file.stem, suffix |-> "_output",
               ext |-> s.input_file.ext]]

\* update_start_time_from_slider without lines 588-589
update_start_time_from_slider_unadjusted(s, value) ==
    [s EXCEPT !.start_seconds = value,
              !.start_time_entry = format_time(Some(value)),
              !.adjusted = FALSE]

update_start_time_from_slider(s, value) ==
    LET moved == value
        adjust == moved >= s.end_seconds
        start == IF adjust
                 THEN (IF s.end_seconds - Epsilon < 0 THEN 0
                       ELSE s.end_seconds - Epsilon)
                 ELSE moved
    IN  [s EXCEPT !.start_seconds = start,
                  !.start_time_entry = format_time(Some(start)),
                  !.adjusted = adjust]

\* update_end_time_from_slider without lines 601-604
update_end_time_from_slider_unadjusted(s, value) ==
    [s EXCEPT !.end_seconds = value,
              !.end_time_entry = format_time(Some(value)),
              !.adjusted = FALSE]

\* update_end_time_from_slider without line 603
update_end_time_from_slider_uncapped(s, value) ==
    LET moved == value
        adjust == moved <= s.start_seconds
        end == IF adjust THEN s.start_seconds + Epsilon ELSE moved
    IN  [s EXCEPT !.end_seconds = end,
                  !.end_time_entry = format_time(Some(end)),
                  !.adjusted = adjust]

update_end_time_from_slider(s, value) ==
    LET moved == value
        adjust == moved <= s.start_seconds
        end == IF adjust
               THEN (IF s.start_seconds + Epsilon > s.duration_seconds
                     THEN s.duration_seconds
                     ELSE s.start_seconds + Epsilon)
               ELSE moved
    IN  [s EXCEPT !.end_seconds = end,
                  !.end_time_entry = format_time(Some(end)),
                  !.adjusted = adjust]

\* lines 619 and 634 without the comparison with duration_seconds
in_duration_unbounded(s, decoded) ==
    decoded # None /\ 0 <= decoded[1]

\* the test of lines 619 and 634 on a decoded text
in_duration(s, decoded) ==
    decoded # None /\ 0 <= decoded[1] /\ decoded[1] <= s.duration_seconds

\* s.start_time_entry and s.end_time_entry hold what the fields contain when
\* the handler fires
update_times_from_entry(s) ==
    LET start_str == s.start_time_entry
        end_str == s.end_time_entry
        new_start == parse_time(start_str)
        new_end == parse_time(end_str)
        valid_start == in_duration(s, new_start)
        valid_end == in_duration(s, new_end)
        start == IF valid_start THEN new_start[1] ELSE s.start_seconds
        end == IF valid_end THEN new_end[1] ELSE s.end_seconds
    IN  [s EXCEPT !.start_seconds = start,
                  !.start_time_entry = format_time(Some(start)),
                  !.end_seconds = end,
                  !.end_time_entry = format_time(Some(end)),
                  !.valid_start = valid_start,
                  !.valid_end = valid_end]

MsgInput == "Invalid or missing input file."
MsgOutput == "Please specify an output file location."
MsgOrder == "Start time must be before end time."
MsgBounds == "Start or end time is outside the media duration."

\* validate_inputs with > for >= in line 666
validate_inputs_equal_allowed(s, exists) ==
    IF s.input_file = NoPath \/ ~exists
    THEN [self |-> showerror(s, MsgInput), ok |-> FALSE]
    ELSE
    LET s1 == IF s.output_file = NoPath THEN suggest_output_path(s) ELSE s
    IN  IF s1.output_file = NoPath
        THEN [self |-> showerror(s1, MsgOutput), ok |-> FALSE]
        ELSE
        LET s2 == update_times_from_entry(s1)
        IN  IF s2.start_seconds > s2.end_seconds
            THEN [self |-> showerror(s2, MsgOrder), ok |-> FALSE]
            ELSE IF s2.start_seconds < 0 \/ s2.end_seconds > s2.duration_seconds
            THEN [self |-> showerror(s2, MsgBounds), ok |-> FALSE]
            ELSE [self |-> s2, ok |-> TRUE]

\* validate_inputs: the fields after the call and the value returned;
\* exists is what os.path.exists(self.input_file) answers
validate_inputs(s, exists) ==
    IF s.input_file = NoPath \/ ~exists
    THEN [self |-> showerror(s, MsgInput), ok |-> FALSE]
    ELSE
    LET s1 == IF s.output_file = NoPath THEN suggest_output_path(s) ELSE s
    IN  IF s1.output_file = NoPath
        THEN [self |-> showerror(s1, MsgOutput), ok |-> FALSE]
        ELSE
        LET s2 == update_times_from_entry(s1)
        IN  IF s2.start_seconds >= s2.end_seconds
            THEN [self |-> showerror(s2, MsgOrder), ok |-> FALSE]
            ELSE IF s2.start_seconds < 0 \/ s2.end_seconds > s2.duration_seconds
            THEN [self |-> showerror(s2, MsgBounds), ok |-> FALSE]
            ELSE [self |-> s2, ok |-> TRUE]

set_ui_state(s, state) == configure(s, Widgets, state)

\* ------------------------------------------------- text of a status line
\* least index >= i at which pat occurs in s, 0 when there is none
RECURSIVE Find(_, _, _)
Find(s, pat, i) ==
    IF i + Len(pat) - 1 > Len(s) THEN 0
    ELSE IF SubSeq(s, i, i + Len(pat) - 1) = pat THEN i
    ELSE Find(s, pat, i + 1)

\* Python: pat in s
contains(s, pat) == Find(s, pat, 1) # 0

\* Python s.split(pat) for a separator of several characters
RECURSIVE split_on(_, _)
split_on(s, pat) ==
    LET i == Find(s, pat, 1)
    IN  IF i = 0 THEN <<s>>
        ELSE <<SubSeq(s, 1, i - 1)>> \o split_on(SubSeq(s, i + Len(pat), Len(s)), pat)

Whitespace == {" ", "\n"}

\* Python s.split(): the words between runs of whitespace
RECURSIVE SplitWs(_, _, _)
SplitWs(s, i, cur) ==
    IF i > Len(s) THEN (IF cur = <<>> THEN <<>> ELSE <<cur>>)
    ELSE IF s[i] \in Whitespace
    THEN (IF cur = <<>> THEN <<>> ELSE <<cur>>) \o SplitWs(s, i + 1, <<>>)
    ELSE SplitWs(s, i + 1, Append(cur, s[i]))

split_ws(s) == SplitWs(s, 1, <<>>)

TimeEq == <<"t", "i", "m", "e", "=">>

\* ---------------------------------------------------- external transcoder
Flag(text) == [kind |-> "flag", text |-> text, num |-> 0, path |-> NoPath]
Num(x) == [kind |-> "num", text |-> "", num |-> x, path |-> NoPath]
File(path) == [kind |-> "path", text |-> "", num |-> 0, path |-> path]

\* the command list of lines 450-460; times are in ticks, the -crf value in
\* tenths; quality is int(self.quality_slider.get())
ffmpeg_command(input_path, output_path, start_time, end_time, quality) ==
    LET duration == end_time - start_time
        reencode == output_path.ext \in {".mp4", ".mkv"}
    IN  << Flag("ffmpeg"),
           Flag("-y"),
           Flag("-i"), File(input_path),
           Flag("-ss"), Num(start_time),
           Flag("-t"), Num(duration),
           Flag("-c:v"), Flag(IF reencode THEN "libx264" ELSE "copy"),
           Flag("-crf"), Num(310 - quality * 3),
           Flag("-c:a"), Flag(IF reencode THEN "aac" ELSE "copy"),
           File(output_path) >>

\* line 477 without min(1.0, ...)
clamp_fraction_unbounded(num, den) ==
    LET n == IF den < 0 THEN -num ELSE num
        d == IF den < 0 THEN -den ELSE den
    IN  IF n <= 0 THEN <<0, 1>> ELSE <<n, d>>

\* min(1.0, max(0.0, progress)) for progress = num / den, den # 0, as a
\* fraction <<n, d>> with d > 0
clamp_fraction(num, den) ==
    LET n == IF den < 0 THEN -num ELSE num
        d == IF den < 0 THEN -den ELSE den
    IN  IF n <= 0 THEN <<0, 1>>
        ELSE IF n >= d THEN <<1, 1>>
        ELSE <<n, d>>

\* one call of run_ffmpeg_cut
NoRun == [pc |-> "none", input_path |-> NoPath, output_path |-> NoPath,
          start_time |-> 0, end_time |-> 0, quality |-> 0, spawned |-> 0,
          proc |-> "none", exits |-> <<>>, current_time |-> None,
          progress |-> None, raised |-> ""]

\* run_new with the start of the media for the start_time it is given
run_new_from_zero(input_path, output_path, start_time, end_time) ==
    [NoRun EXCEPT !.pc = "idle", !.input_path = input_path,
                  !.output_path = output_path,
                  !.start_time = 0, !.end_time = end_time]

\* the call has been made and has not yet reached line 462
run_new(input_path, output_path, start_time, end_time) ==
    [NoRun EXCEPT !.pc = "idle", !.input_path = input_path,
                  !.output_path = output_path,
                  !.start_time = start_time, !.end_time = end_time]

\* lines 446-466: found is whether the system can start 'ffmpeg'; the run
\* keeps the quality it read and the number of processes it has started
run_spawn(r, quality, found) ==
    IF found
    THEN [r EXCEPT !.pc = "running", !.proc = "running", !.quality = quality,
                   !.spawned = r.spawned + 1]
    ELSE [r EXCEPT !.pc = "failed", !.quality = quality,
                   !.raised = "FileNotFoundError"]

\* the command list the run gave to subprocess.Popen
run_command(r) ==
    ffmpeg_command(r.input_path, r.output_path, r.start_time, r.end_time, r.quality)

\* lines 469-477 for a line that readline returned (never empty)
run_readline(r, line) ==
    LET duration == r.end_time - r.start_time
        read == [r EXCEPT !.current_time = None, !.progress = None]
    IN  IF ~contains(line, TimeEq) THEN read
        ELSE
        LET words == split_ws(split_on(line, TimeEq)[2])
        IN  IF Len(words) = 0
            THEN [read EXCEPT !.pc = "failed", !.raised = "IndexError"]
            ELSE
            LET current_time == parse_time(words[1])
            IN  IF current_time = None THEN read
                ELSE IF duration = 0
                THEN [read EXCEPT !.pc = "failed", !.raised = "ZeroDivisionError",
                                  !.current_time = current_time]
                ELSE [read EXCEPT !.current_time = current_time,
                                  !.progress =
                         Some(clamp_fraction(current_time[1] - r.start_time, duration))]

MsgFailed == "FFmpeg process failed"

\* lines 470-471 and 479-480: readline returned '' and poll() saw the exit
run_break(r) ==
    LET returncode == r.exits[Len(r.exits)]
    IN  IF returncode # 0
        THEN [r EXCEPT !.pc = "failed", !.raised = MsgFailed]
        ELSE [r EXCEPT !.pc = "succeeded"]

\* ------------------------------------------------------------ the inputs
\* HH:MM:SS.mmm of a whole number of milliseconds, as the transcoder or a
\* user writes it
ExactTimeText(ms) ==
    ZeroPad(ms \div 3600000, 2) \o <<":">> \o ZeroPad((ms % 3600000) \div 60000, 2)
    \o <<":">> \o ZeroPad((ms % 60000) \div 1000, 2) \o <<".">> \o ZeroPad(ms % 1000, 3)

\* texts that do not decode: two fields only, and a field that is no number
MalformedTexts == {<<"1", "2", ":", "3", "0">>, <<"0", "0", ":", "0", "x", ":", "0", "0">>}

\* the lines the transcoder writes to its status stream
TokenLine(token) == <<"f", "p", "s", "=", "3", "0", " ">> \o TimeEq \o token \o <<" ", "b", "i", "t", "r", "a", "t", "e", "=", "1", "\n">>

NoTokenLine == <<"f", "r", "a", "m", "e", "=", "1", "\n">>

EmptyTokenLine == <<"t", "i", "m", "e", "=", "\n">>

UndecodableLine == TokenLine(<<"N", "/", "A">>)

OutputFiles == {[stem |-> "c", suffix |-> "", ext |-> ".avi"]}

Formats == {"Same as input", "MP4"}

RECURSIVE SeqsUpTo(_, _)
SeqsUpTo(S, n) ==
    IF n = 0 THEN {<<>>}
    ELSE LET shorter == SeqsUpTo(S, n - 1)
         IN  shorter \cup {Append(q, x) : q \in shorter, x \in S}

\* ----------------------------------------------------------- recent files
\* the document at config_path: absent, not JSON, or JSON with a list under
\* the key recent_files
NoConfig == [kind |-> "absent", recent_files |-> <<>>]

CorruptConfig == [kind |-> "corrupt", recent_files |-> <<>>]

Config(files) == [kind |-> "json", recent_files |-> files]

\* self.recent_files after load_recent_files, from the [] of line 93
load_recent_files(document) ==
    IF document.kind = "json" THEN document.recent_files ELSE <<>>

\* the document after save_recent_files; written is whether open and
\* json.dump went through
save_recent_files(files, document, written) ==
    IF written THEN Config(files) ELSE document

\* Python x in l
member(l, x) == \E k \in 1..Len(l) : l[k] = x

\* Python l.remove(x) for x in l: the first occurrence goes
remove(l, x) ==
    LET k == CHOOSE k \in 1..Len(l) : l[k] = x /\ \A j \in 1..(k - 1) : l[j] # x
    IN  SubSeq(l, 1, k - 1) \o SubSeq(l, k + 1, Len(l))

\* lines 282-285: self.recent_files after the call
recent_added(files, filepath) ==
    Prefix(<<filepath>> \o (IF member(files, filepath) THEN remove(files, filepath)
                            ELSE files),
           RecentCapacity)

\* ------------------------------------------------------------------ Init
NoBatch == [active |-> FALSE, filepaths |-> <<>>, k |-> 0, processed |-> 0,
            total_files |-> 0]

CodecOff == [pc |-> "off", seconds |-> None, text |-> <<>>, decoded |-> None]

\* MediaCutterApp.__init__
AppInit ==
    /\ input_file = NoPath
    /\ output_file = NoPath
    /\ duration_seconds = 0
    /\ start_seconds = 0
    /\ end_seconds = 0
    /\ start_time_entry = ZeroText
    /\ end_time_entry = ZeroText
    /\ ui = [w \in Widgets |-> IF w = "browse_input_button" THEN "normal" ELSE "disabled"]
    /\ shown = <<>>
    /\ last_op = Op("__init__", Self, FALSE)
    /\ progress_bar = <<0, 1>>
    /\ runs = [i \in 0..MaxThreads |-> NoRun]
    /\ batch = NoBatch

\* lines 93-94 and 115: the list read from document, shown by the dropdown
RecentLoaded(document) ==
    /\ config_file = document
    /\ recent_files = load_recent_files(document)
    /\ recent_files_dropdown = load_recent_files(document)
    /\ recent_calls = 0

Init == AppInit /\ codec = CodecOff /\ RecentLoaded(NoConfig)

\* ----------------------------------------- handlers on the session thread
\* The session thread runs one handler at a time; while batch_process_files
\* is on it no other handler runs.
SessionIdle == ~batch.active

exec_vars == <<progress_bar, runs, batch>>

\* what the two time fields contain when a handler reads them: the text the
\* program wrote last, or, in the field that has the focus, one of typed
EntryContents(typed) ==
    {<<start_time_entry, end_time_entry>>}
    \cup {<<t, end_time_entry>> : t \in typed}
    \cup {<<start_time_entry, t>> : t \in typed}

WithEntries(s, texts) ==
    [s EXCEPT !.start_time_entry = texts[1], !.end_time_entry = texts[2]]

\* Browse button or Control-o; the dialog gave filepath
browse_input(filepath, probe) ==
    /\ SessionIdle
    /\ LET s == configure(
                  suggest_output_path(
                      load_media_info([Self EXCEPT !.input_file = filepath], probe)),
                  {"browse_output_button"}, "normal")
       IN  Becomes(s) /\ last_op' = Op("browse_input", s, FALSE)
    /\ UNCHANGED <<exec_vars, codec, recent_vars>>

MsgNoInput == "Please select an input file first."

\* Save As button or Control-s; the dialog gave filepath
browse_output(filepath) ==
    /\ SessionIdle
    /\ LET s == IF input_file = NoPath THEN showerror(Self, MsgNoInput)
                ELSE [Self EXCEPT !.output_file = filepath]
       IN  Becomes(s) /\ last_op' = Op("browse_output", s, FALSE)
    /\ UNCHANGED <<exec_vars, codec, recent_vars>>

\* the start slider is dragged to value, a position in [0, duration_seconds]
start_slider_moved(value) ==
    /\ SessionIdle
    /\ ui["start_slider"] = "normal"
    /\ 0 <= value /\ value <= duration_seconds
    /\ LET s == update_start_time_from_slider(Self, value)
       IN  Becomes(s) /\ last_op' = Op("update_start_time_from_slider", s, FALSE)
    /\ UNCHANGED <<exec_vars, codec, recent_vars>>

end_slider_moved(value) ==
    /\ SessionIdle
    /\ ui["end_slider"] = "normal"
    /\ 0 <= value /\ value <= duration_seconds
    /\ LET s == update_end_time_from_slider(Self, value)
       IN  Becomes(s) /\ last_op' = Op("update_end_time_from_slider", s, FALSE)
    /\ UNCHANGED <<exec_vars, codec, recent_vars>>

\* FocusOut or Return in a time field
entry_committed(texts) ==
    /\ SessionIdle
    /\ ui["start_time_entry"] = "normal" /\ ui["end_time_entry"] = "normal"
    /\ LET s == update_times_from_entry(WithEntries(Self, texts))
       IN  Becomes(s) /\ last_op' = Op("update_times_from_entry", s, FALSE)
    /\ UNCHANGED <<exec_vars, codec, recent_vars>>

\* the worker threads created so far
Started == {i \in 1..MaxThreads : runs[i].pc # "none"}

\* Cut Media button
start_cutting_thread(texts, exists) ==
    /\ SessionIdle
    /\ ui["cut_button"] = "normal"
    /\ Cardinality(Started) < MaxThreads
    /\ \E v \in {validate_inputs(WithEntries(Self, texts), exists)} :
           /\ last_op' = Op("start_cutting_thread", v.self, v.ok)
           /\ IF ~v.ok
              THEN Becomes(v.self) /\ UNCHANGED runs
              ELSE /\ Becomes(set_ui_state(v.self, "disabled"))
                   /\ runs' = [runs EXCEPT ![Cardinality(Started) + 1] =
                                   run_new(v.self.input_file, v.self.output_file,
                                           v.self.start_seconds, v.self.end_seconds)]
    /\ UNCHANGED <<progress_bar, batch, codec, recent_vars>>

\* ------------------------------------------------------ batch processing
\* lines 419-425
batch_output_path(filepath, output_format) ==
    [stem |-> filepath.stem, suffix |-> "_cut",
     ext |-> IF output_format = "Same as input" THEN filepath.ext
             ELSE IF output_format = "MP4" THEN ".mp4"
             ELSE ".mp3"]

MsgBatchFailed == "Failed to process"
MsgBatchDone == "Batch processing completed"

\* lines 413-433 for the k-th file: up to the call of run_ffmpeg_cut
batch_enter(b, k, output_format) ==
    /\ batch' = [b EXCEPT !.active = TRUE, !.k = k]
    /\ progress_bar' = <<b.processed, b.total_files>>
    /\ runs' = [runs EXCEPT ![0] =
                   run_new(b.filepaths[k],
                           batch_output_path(b.filepaths[k], output_format),
                           start_seconds, end_seconds)]

\* Batch Process button: the file dialog gave filepaths (not empty) and the
\* directory dialog a directory; output_format is self.format_var.get()
browse_batch_files(filepaths, output_format) ==
    /\ SessionIdle
    /\ last_op' = Op("browse_batch_files", Self, FALSE)
    /\ batch_enter([NoBatch EXCEPT !.filepaths = filepaths,
                                   !.total_files = Len(filepaths)],
                   1, output_format)
    /\ shown' = <<>>
    /\ UNCHANGED <<range_vars, codec, recent_vars>>

\* batch_continue with the try of line 414 around the whole loop: the first
\* failure ends the batch
batch_continue_until_failure(output_format) ==
    /\ batch.active
    /\ runs[0].pc \in {"succeeded", "failed"}
    /\ LET ok == runs[0].pc = "succeeded"
           b == [batch EXCEPT !.processed = IF ok THEN @ + 1 ELSE @]
           msgs == IF ok THEN shown ELSE Append(shown, MsgBatchFailed)
       IN  IF ok /\ batch.k < batch.total_files
           THEN /\ batch_enter(b, batch.k + 1, output_format)
                /\ shown' = msgs
           ELSE /\ batch' = [NoBatch EXCEPT !.processed = b.processed,
                                            !.total_files = b.total_files]
                /\ progress_bar' = IF ok THEN <<b.processed, b.total_files>>
                                   ELSE progress_bar
                /\ runs' = [runs EXCEPT ![0] = NoRun]
                /\ shown' = Append(msgs, MsgBatchDone)
    /\ UNCHANGED <<range_vars, last_op, codec, recent_vars>>

\* run_ffmpeg_cut returned or raised in the loop of batch_process_files:
\* lines 435-442, and the next turn of the loop.  After the last file the
\* record keeps the two counts the closing message box shows.
batch_continue(output_format) ==
    /\ batch.active
    /\ runs[0].pc \in {"succeeded", "failed"}
    /\ LET ok == runs[0].pc = "succeeded"
           b == [batch EXCEPT !.processed = IF ok THEN @ + 1 ELSE @]
           msgs == IF ok THEN shown ELSE Append(shown, MsgBatchFailed)
       IN  IF batch.k < batch.total_files
           THEN /\ batch_enter(b, batch.k + 1, output_format)
                /\ shown' = msgs
           ELSE /\ batch' = [NoBatch EXCEPT !.processed = b.processed,
                                            !.total_files = b.total_files]
                /\ progress_bar' = IF ok THEN <<b.processed, b.total_files>>
                                   ELSE progress_bar
                /\ runs' = [runs EXCEPT ![0] = NoRun]
                /\ shown' = Append(msgs, MsgBatchDone)
    /\ UNCHANGED <<range_vars, last_op, codec, recent_vars>>

\* ------------------------------------------------- steps of run_ffmpeg_cut
\* i = 0 is the call made by batch_process_files, i > 0 a worker thread
spawn_process(i, quality, found) ==
    /\ runs[i].pc = "idle"
    /\ runs' = [runs EXCEPT ![i] = run_spawn(runs[i], quality, found)]
    /\ UNCHANGED <<range_vars, shown, last_op, progress_bar, batch, codec, recent_vars>>

read_line(i, line) ==
    /\ runs[i].pc = "running"
    /\ runs[i].proc = "running"
    /\ LET r == run_readline(runs[i], line)
       IN  /\ runs' = [runs EXCEPT ![i] = r]
           /\ progress_bar' = IF r.progress # None THEN r.progress[1]
                              ELSE progress_bar
    /\ UNCHANGED <<range_vars, shown, last_op, batch, codec, recent_vars>>

end_of_stream(i) ==
    /\ runs[i].pc = "running"
    /\ runs[i].proc = "exited"
    /\ runs' = [runs EXCEPT ![i] = run_break(runs[i])]
    /\ UNCHANGED <<range_vars, shown, last_op, progress_bar, batch, codec, recent_vars>>

\* the external process closes its status stream and exits with status
process_exits(i, status) ==
    /\ runs[i].proc = "running"
    /\ runs' = [runs EXCEPT ![i].proc = "exited",
                            ![i].exits = Append(runs[i].exits, status)]
    /\ UNCHANGED <<range_vars, shown, last_op, progress_bar, batch, codec, recent_vars>>

\* ------------------------------------------------------- the range state
\* The handlers that write duration_seconds, start_seconds and end_seconds,
\* over the two clusters of times.
RangeProbes ==
    {[kind |-> "ok", duration |-> d] : d \in Times}
    \cup {[kind |-> k, duration |-> 0] : k \in {"FileNotFoundError", "CalledProcessError"}}

\* typed into a time field: times inside and outside the durations, and
\* texts that do not decode
RangeTexts ==
    {ExactTimeText(ms) : ms \in {0, 1001, 20000}} \cup MalformedTexts

RangeFiles == {[stem |-> "a", suffix |-> "", ext |-> ".mp4"]}

RangeNext ==
    \/ \E f \in RangeFiles, p \in RangeProbes : browse_input(f, p)
    \/ \E v \in Times : start_slider_moved(v)
    \/ \E v \in Times : end_slider_moved(v)
    \/ \E t \in EntryContents(RangeTexts) : entry_committed(t)

RangeSpec == Init /\ [][RangeNext]_vars

\* ------------------------------------------------ the setters on their own
\* update_start_time_from_slider and update_end_time_from_slider called with
\* any value, inside the range of the slider or not.
start_setter_called(value) ==
    /\ SessionIdle
    /\ LET s == update_start_time_from_slider(Self, value)
       IN  Becomes(s) /\ last_op' = Op("update_start_time_from_slider", s, FALSE)
    /\ UNCHANGED <<exec_vars, codec, recent_vars>>

end_setter_called(value) ==
    /\ SessionIdle
    /\ LET s == update_end_time_from_slider(Self, value)
       IN  Becomes(s) /\ last_op' = Op("update_end_time_from_slider", s, FALSE)
    /\ UNCHANGED <<exec_vars, codec, recent_vars>>

\* the values given to the setters: the modelled times, times below 0 and
\* times above every duration
SetterValues == Times \cup {-TicksPerSecond, -1, 2 * TicksPerSecond}

SetterNext ==
    \/ \E f \in RangeFiles, p \in RangeProbes : browse_input(f, p)
    \/ \E v \in SetterValues : start_setter_called(v)
    \/ \E v \in SetterValues : end_setter_called(v)

SetterSpec == Init /\ [][SetterNext]_vars

\* ------------------------------------------------------ the cut of a media
\* Loading a short media, committing a range with the Cut Media button, and
\* every step of run_ffmpeg_cut on the worker threads.
CutProbes ==
    {[kind |-> "ok", duration |-> 4 * TicksPerMs],
     [kind |-> "CalledProcessError", duration |-> 0]}

\* typed into a time field
CutTexts == {ExactTimeText(ms) : ms \in {0, 1, 4}}

StatusLines ==
    {TokenLine(ExactTimeText(ms)) : ms \in {0, 1, 4}}
    \cup {UndecodableLine, NoTokenLine, EmptyTokenLine}

\* the lines a worker thread reads: one with a time, one without, and one
\* that ends after time=
ThreadLines == {TokenLine(ExactTimeText(1)), NoTokenLine, EmptyTokenLine}

\* int(self.quality_slider.get()): the value set at line 218
Qualities == {80}

Next ==
    \/ \E f \in InputFiles, p \in CutProbes : browse_input(f, p)
    \/ \E t \in EntryContents(CutTexts), x \in BOOLEAN : start_cutting_thread(t, x)
    \/ \E i \in 1..MaxThreads, q \in Qualities, found \in BOOLEAN :
           spawn_process(i, q, found)
    \/ \E i \in 1..MaxThreads, l \in ThreadLines : read_line(i, l)
    \/ \E i \in 1..MaxThreads : end_of_stream(i)
    \/ \E i \in 1..MaxThreads, st \in {0, 1} : process_exits(i, st)

Spec == Init /\ [][Next]_vars

\* ------------------------------------------------- the cut, with scheduling
\* A worker thread that has been started (line 704) is scheduled: it reaches
\* line 462, and it takes the break of line 471 once readline returns '' and
\* poll() sees the exit.  Nothing is assumed of the user or of the process.
WorkerNext ==
    \E i \in 1..MaxThreads :
        \/ \E q \in Qualities, found \in BOOLEAN : spawn_process(i, q, found)
        \/ end_of_stream(i)

FairSpec == Spec /\ WF_vars(WorkerNext)

\* ------------------------------------------------------------ the teardown
\* The window is closed while cuts may be running: app.mainloop() returns
\* (line 710) and the interpreter exits.  The worker threads are daemon
\* threads (line 702) and end there, wherever they are; nothing in the
\* program terminates or waits for the processes they started, which go on
\* until they exit by themselves.
Closed == last_op.name = "mainloop"

mainloop_returns ==
    /\ ~Closed
    /\ last_op' = Op("mainloop", Self, FALSE)
    /\ runs' = [i \in DOMAIN runs |->
                   IF runs[i].pc \in {"idle", "running"}
                   THEN [runs[i] EXCEPT !.pc = "killed"]
                   ELSE runs[i]]
    /\ UNCHANGED <<range_vars, shown, progress_bar, batch, codec, recent_vars>>

TeardownNext ==
    \/ ~Closed /\ Next
    \/ mainloop_returns
    \/ Closed /\ \E i \in 1..MaxThreads, st \in {0, 1} : process_exits(i, st)

TeardownSpec == Init /\ [][TeardownNext]_vars

\* ------------------------------------------------------ the batch of cuts
\* Loading a short media, editing the time fields, and batch_process_files
\* with every step of the calls of run_ffmpeg_cut it makes.
BatchSelections == SeqsUpTo(InputFiles, MaxBatch) \ {<<>>}

BatchNext ==
    \/ \E f \in InputFiles, p \in CutProbes : browse_input(f, p)
    \/ \E t \in EntryContents(CutTexts) : entry_committed(t)
    \/ \E fs \in BatchSelections, o \in Formats : browse_batch_files(fs, o)
    \/ \E o \in Formats : batch_continue(o)
    \/ \E q \in Qualities, found \in BOOLEAN : spawn_process(0, q, found)
    \/ \E l \in StatusLines : read_line(0, l)
    \/ end_of_stream(0)
    \/ \E st \in {0, 1} : process_exits(0, st)

BatchSpec == Init /\ [][BatchNext]_vars

\* ------------------------------------------------- the session as a whole
\* Loading a media, the Cut Media and Batch Process buttons, and every step
\* of the calls of run_ffmpeg_cut, on the worker threads and in the batch;
\* the time fields hold what the program wrote.
SessionNext ==
    \/ \E f \in InputFiles, p \in CutProbes : browse_input(f, p)
    \/ \E x \in BOOLEAN :
           start_cutting_thread(<<start_time_entry, end_time_entry>>, x)
    \/ \E fs \in BatchSelections, o \in Formats : browse_batch_files(fs, o)
    \/ \E o \in Formats : batch_continue(o)
    \/ \E i \in 0..MaxThreads, q \in Qualities, found \in BOOLEAN :
           spawn_process(i, q, found)
    \/ \E i \in 0..MaxThreads, l \in ThreadLines : read_line(i, l)
    \/ \E i \in 0..MaxThreads : end_of_stream(i)
    \/ \E i \in 0..MaxThreads, st \in {0, 1} : process_exits(i, st)

SessionSpec == Init /\ [][SessionNext]_vars

\* -------------------------------------------------- the recent-files list
\* The list as load_recent_files finds it in the document, and calls of
\* add_recent_file on it.
RecentNames ==
    <<"f01", "f02", "f03", "f04", "f05", "f06", "f07", "f08", "f09", "f10",
      "f11", "f12">>

RecentPath(k) == [stem |-> RecentNames[k], suffix |-> "", ext |-> ".mp4"]

RecentPaths == {RecentPath(k) : k \in 1..Len(RecentNames)}

FirstPaths(n) == [k \in 1..n |-> RecentPath(k)]

\* the lists a document can hold: short, one below the capacity, at it and
\* above it, and with a path written twice
ConfigLists ==
    {FirstPaths(n) : n \in {0, 3, RecentCapacity - 1, RecentCapacity,
                            RecentCapacity + 1}}
    \cup {<<RecentPath(1), RecentPath(1)>>,
          <<RecentPath(1), RecentPath(2), RecentPath(1)>>}

ConfigDocuments == {NoConfig, CorruptConfig} \cup {Config(l) : l \in ConfigLists}

RecentInit ==
    /\ AppInit
    /\ codec = CodecOff
    /\ \E d \in ConfigDocuments : RecentLoaded(d)

add_recent_file(filepath, written) ==
    /\ recent_calls < MaxAdds
    /\ recent_files' = recent_added(recent_files, filepath)
    /\ recent_files_dropdown' = recent_files'
    /\ config_file' = save_recent_files(recent_files', config_file, written)
    /\ recent_calls' = recent_calls + 1
    /\ last_op' = Op("add_recent_file", Self, FALSE)
    /\ UNCHANGED <<range_vars, shown, exec_vars, codec>>

RecentNext == \E p \in RecentPaths, w \in BOOLEAN : add_recent_file(p, w)

RecentSpec == RecentInit /\ [][RecentNext]_vars

\* ----------------------------------------------------- the codec on its own
\* durations in whole milliseconds around 0 s, 1 s, 1 min, 1 h and 100 h,
\* below it down from 359999.999 s
CodecMillis ==
    {b + i : b \in {0, 1000, 60000, 3600000, 360000000}, i \in 0..CodecSpan}
    \cup {359999999 - i : i \in 0..CodecSpan}

\* the values given to format_time: on and between the milliseconds, a
\* negative one and None
CodecInputs ==
    {Some(ms * TicksPerMs + o) : ms \in CodecMillis, o \in {0, 1}}
    \cup {Some(-1), None}

\* the texts given to parse_time.  Three fields, each a number, a field with
\* a letter, digits grouped by an underscore or an empty field, and after
\* them nothing, a fraction, or a fraction with a letter, empty, or followed
\* by a second point
NumberFields == {<<"0", "0">>, <<"1", "2">>}

OtherFields == {<<"0", "x">>, <<"1", "_", "0">>, <<>>}

Suffixes ==
    {<<>>, <<".", "4">>, <<".">>, <<".", "x">>, <<".", "4", "x">>,
     <<".", "4", ".", "x">>}

TimeText(hrs, mins, secs, suffix) ==
    hrs \o <<":">> \o mins \o <<":">> \o secs \o suffix

FieldTexts ==
    {TimeText(h, m, s, x) :
        h \in NumberFields \cup OtherFields, m \in NumberFields \cup OtherFields,
        s \in NumberFields \cup OtherFields, x \in Suffixes}

\* texts of fewer and of more than three fields
CountTexts ==
    {<<>>, <<"5">>, <<"1", "2", ":", "3", "0">>,
     <<"1", ":", "2", ":", "3", ":", "4">>, <<":", ":", ":">>}

\* the seconds a fraction follows, with the ticks they decode to
Bases ==
    {[text |-> <<"0", "0", ":", "0", "0", ":", "0", "1">>,
      ticks |-> TicksPerSecond],
     [text |-> <<"1", "2", ":", "0", "0", ":", "0", "1">>,
      ticks |-> 43201 * TicksPerSecond],
     [text |-> <<"0", "0", ":", "0", "0", ":", "0", "5">>,
      ticks |-> 5 * TicksPerSecond]}

\* fractions of 1 to MaxFrac digits, and the five digits 45678
Fractions ==
    (SeqsUpTo({"0", "4", "5", "6"}, MaxFrac) \ {<<>>})
    \cup {<<"4", "5", "6", "7", "8">>}

FractionTexts == {b.text \o <<".">> \o f : b \in Bases, f \in Fractions}

DecodeTexts == FieldTexts \cup CountTexts \cup FractionTexts

CodecInit ==
    /\ AppInit
    /\ RecentLoaded(NoConfig)
    /\ codec \in {[pc |-> "start", seconds |-> d, text |-> <<>>, decoded |-> None] :
                    d \in CodecInputs}
               \cup {[pc |-> "typed", seconds |-> None, text |-> t, decoded |-> None] :
                        t \in DecodeTexts}

codec_encode ==
    /\ codec.pc = "start"
    /\ codec' = [codec EXCEPT !.pc = "encoded", !.text = format_time(codec.seconds)]
    /\ UNCHANGED <<range_vars, shown, last_op, exec_vars, recent_vars>>

codec_decode ==
    /\ codec.pc = "encoded"
    /\ codec' = [codec EXCEPT !.pc = "decoded", !.decoded = parse_time(codec.text)]
    /\ UNCHANGED <<range_vars, shown, last_op, exec_vars, recent_vars>>

codec_parse ==
    /\ codec.pc = "typed"
    /\ codec' = [codec EXCEPT !.pc = "parsed", !.decoded = parse_time(codec.text)]
    /\ UNCHANGED <<range_vars, shown, last_op, exec_vars, recent_vars>>

CodecNext == codec_encode \/ codec_decode \/ codec_parse

CodecSpec == CodecInit /\ [][CodecNext]_vars

\* ================================================================ claims
RangeOK ==
    /\ 0 <= start_seconds
    /\ start_seconds < end_seconds
    /\ end_seconds <= duration_seconds

\* a step of one of the two slider handlers, of load_media_info
SliderMove ==
    /\ last_op'.name \in {"update_start_time_from_slider",
                          "update_end_time_from_slider"}
    /\ \E v \in Times : start_slider_moved(v) \/ end_slider_moved(v)

Load ==
    /\ last_op'.name = "browse_input"
    /\ \E f \in RangeFiles, p \in RangeProbes : browse_input(f, p)

\* C1 as claimed, for a media of 1 s or more: whenever it is loaded, after
\* any slider moves and text commits, 0 <= start < end <= mediaDuration.
C1_Claimed == duration_seconds >= TicksPerSecond => RangeOK

\* C1 as amended: with a media of duration > 0 loaded, start and end are
\* both inside [0, mediaDuration]; the load establishes start < end and every
\* slider move preserves 0 <= start < end <= mediaDuration (a text commit can
\* leave start >= end).
C1_RangeInvariant ==
    /\ [](duration_seconds > 0 =>
            /\ 0 <= start_seconds /\ start_seconds <= duration_seconds
            /\ 0 <= end_seconds /\ end_seconds <= duration_seconds)
    /\ [][Load /\ duration_seconds' > 0 => RangeOK']_vars
    /\ [][SliderMove /\ duration_seconds > 0 /\ RangeOK => RangeOK']_vars

\* the end slider was dragged onto the start, at one tick below the duration,
\* and the adjusted end was capped at the duration
C1_Witness ==
    /\ duration_seconds >= TicksPerSecond
    /\ last_op.name = "update_end_time_from_slider"
    /\ last_op.adjusted
    /\ start_seconds = duration_seconds - 1
    /\ end_seconds = duration_seconds

\* C2: for every duration d of whole milliseconds in [0, 359999.999] s,
\* parse_time(format_time(d)) succeeds and equals d to the millisecond.
C2_Claimed ==
    (/\ codec.pc = "decoded"
     /\ codec.seconds # None
     /\ codec.seconds[1] >= 0
     /\ codec.seconds[1] % TicksPerMs = 0
     /\ codec.seconds[1] <= 359999999 * TicksPerMs)
    => codec.decoded = codec.seconds

\* ---------------------------------------------------------------- executor
Threads == 1..MaxThreads

Terminal(r) == r.pc \in {"succeeded", "failed"}

\* the run ended by the code after its read loop, not by an error in it
Judged(r) == Terminal(r) /\ r.exits # <<>> /\ r.raised \in {"", MsgFailed}

StreamCopy(r) == \E k \in 1..Len(run_command(r)) : run_command(r)[k] = Flag("copy")

\* C3 as claimed: when the first (stream-copy) process of a cut exits
\* non-zero, a second process without stream copy is spawned, and no third.
C3_Claimed ==
    \A i \in Threads :
        /\ runs[i].spawned <= 2
        /\ (Judged(runs[i]) /\ runs[i].exits[1] # 0) => runs[i].spawned = 2

\* C4 as claimed: a cut whose copy attempt exits 0 succeeds without
\* fallback; one whose copy attempt exits non-zero uses the fallback and
\* succeeds exactly when the second process exits 0, failing with a non-empty
\* error otherwise.
C4_Claimed ==
    \A i \in Threads :
        Judged(runs[i]) =>
            /\ runs[i].exits[1] = 0 =>
                   runs[i].pc = "succeeded" /\ runs[i].spawned = 1
            /\ runs[i].exits[1] # 0 =>
                   /\ runs[i].spawned = 2
                   /\ Len(runs[i].exits) = 2
                   /\ (runs[i].pc = "succeeded") = (runs[i].exits[2] = 0)
                   /\ runs[i].pc = "failed" => runs[i].raised # ""

\* C5 as claimed: a run whose transcoder can be started leaves Idle only
\* into Running with a stream-copy attempt, a re-encode attempt is entered
\* only from a copy attempt that exited non-zero, and Succeeded and Failed are
\* terminal.
C5_Claimed ==
    [][\A i \in Threads :
          /\ (/\ runs[i].pc = "idle"
              /\ runs'[i].pc # "idle"
              /\ runs'[i].raised # "FileNotFoundError") =>
                 runs'[i].pc = "running" /\ StreamCopy(runs'[i])
          /\ (runs'[i].pc = "running" /\ ~StreamCopy(runs'[i])
                  /\ ~(runs[i].pc = "running" /\ ~StreamCopy(runs[i]))) =>
                 /\ runs[i].pc = "running"
                 /\ StreamCopy(runs[i])
                 /\ runs[i].exits # <<>>
                 /\ runs[i].exits[Len(runs[i].exits)] # 0
          /\ Terminal(runs[i]) => runs'[i].pc = runs[i].pc]_vars

\* C6 as claimed: every spawned command has -ss <start> before -i and
\* -to <end> after it.
C6_Claimed ==
    \A i \in Threads :
        runs[i].spawned >= 1 =>
            LET cmd == run_command(runs[i])
                at(flag) == {k \in 1..(Len(cmd) - 1) : cmd[k] = Flag(flag)}
            IN  \E ss \in at("-ss"), in \in at("-i"), to \in at("-to") :
                    /\ ss < in
                    /\ in < to
                    /\ cmd[ss + 1] = Num(runs[i].start_time)
                    /\ cmd[to + 1] = Num(runs[i].end_time)

C8_CommitValidation ==
    last_op.name = "start_cutting_thread" =>
        /\ last_op.result => RangeOK /\ shown = <<>>
        /\ start_seconds >= end_seconds => ~last_op.result
        /\ ~last_op.result =>
               /\ shown \in {<<MsgInput>>, <<MsgOutput>>, <<MsgOrder>>, <<MsgBounds>>}
               /\ shown = <<MsgOrder>> => start_seconds >= end_seconds
               /\ shown = <<MsgBounds>> =>
                      /\ start_seconds < end_seconds
                      /\ start_seconds < 0 \/ end_seconds > duration_seconds
               /\ (RangeOK /\ input_file # NoPath) => shown = <<MsgInput>>

\* Cut Media pressed with the same time, not zero, in both fields
C8_Witness ==
    /\ last_op.name = "start_cutting_thread"
    /\ ~last_op.result
    /\ start_seconds = end_seconds
    /\ start_seconds > 0
    /\ shown = <<MsgOrder>>

\* ------------------------------------------------------------- text edits
Rejected(text) ==
    LET decoded == parse_time(text)
    IN  \/ decoded = None
        \/ decoded[1] < 0
        \/ decoded[1] > duration_seconds

\* C9: a commit with a start (resp. end) text that does not decode, or
\* decodes outside [0, duration], leaves start (resp. end) as it was and writes
\* format_time of that value back into the field.
C9_TextEditRejection ==
    [][\A t \in EntryContents(RangeTexts) :
          (last_op'.name = "update_times_from_entry" /\ entry_committed(t)) =>
              /\ Rejected(t[1]) =>
                     /\ start_seconds' = start_seconds
                     /\ start_time_entry' = format_time(Some(start_seconds))
              /\ Rejected(t[2]) =>
                     /\ end_seconds' = end_seconds
                     /\ end_time_entry' = format_time(Some(end_seconds))]_vars

\* a start text beyond the duration of the loaded media was committed, the
\* start being neither 0 nor the duration
C9_Witness ==
    /\ last_op.name = "update_times_from_entry"
    /\ ~last_op.valid_start
    /\ last_op.valid_end
    /\ duration_seconds >= TicksPerSecond
    /\ 0 < start_seconds
    /\ start_seconds < end_seconds
    /\ start_time_entry = format_time(Some(start_seconds))

\* ----------------------------------------------------------- start slider
StartSliderMove ==
    /\ last_op'.name = "update_start_time_from_slider"
    /\ \E v \in Times : start_slider_moved(v)

\* C10 as claimed, for a media of 1 s or more: with it loaded, after the
\* start slider is moved anywhere in [0, duration], start < end and end is
\* unchanged.
C10_Claimed ==
    [][(duration_seconds >= TicksPerSecond /\ StartSliderMove) =>
          (start_seconds' < end_seconds' /\ end_seconds' = end_seconds)]_vars

\* C10 as amended: after the start slider is moved anywhere in
\* [0, duration], end is unchanged, and start < end provided end > 0 (with
\* end = 0 the adjusted start is 0 as well).
C10_StartSliderAdjust ==
    [][StartSliderMove =>
          /\ end_seconds' = end_seconds
          /\ end_seconds > 0 => start_seconds' < end_seconds'
          /\ end_seconds = 0 => start_seconds' = 0]_vars

\* the start slider was dragged to the right end while end was the duration
C10_Witness ==
    /\ last_op.name = "update_start_time_from_slider"
    /\ last_op.adjusted
    /\ duration_seconds >= TicksPerSecond
    /\ end_seconds = duration_seconds
    /\ start_seconds = end_seconds - Epsilon

\* ------------------------------------------------------------- end slider
EndSliderMove ==
    /\ last_op'.name = "update_end_time_from_slider"
    /\ \E v \in Times : end_slider_moved(v)

\* C11 as claimed, for a media of 1 s or more: with it loaded, after the
\* end slider is moved anywhere in [0, duration], start < end, end <= duration
\* and start is unchanged.
C11_Claimed ==
    [][(duration_seconds >= TicksPerSecond /\ EndSliderMove) =>
          /\ start_seconds' < end_seconds'
          /\ end_seconds' <= duration_seconds'
          /\ start_seconds' = start_seconds]_vars

\* C11 as amended: after the end slider is moved to v in [0, duration],
\* start is unchanged and end <= duration; when v <= start the new end is
\* min(start + 0.001, duration), otherwise it is v; start < end holds provided
\* start < duration (with start = duration the adjusted end is the duration
\* as well).
C11_EndSliderAdjust ==
    [][\A v \in Times :
          (last_op'.name = "update_end_time_from_slider" /\ end_slider_moved(v)) =>
              /\ start_seconds' = start_seconds
              /\ end_seconds' <= duration_seconds'
              /\ v <= start_seconds =>
                     end_seconds' = IF start_seconds + Epsilon < duration_seconds
                                    THEN start_seconds + Epsilon
                                    ELSE duration_seconds
              /\ v > start_seconds => end_seconds' = v
              /\ start_seconds < duration_seconds => start_seconds' < end_seconds'
              /\ start_seconds = duration_seconds => end_seconds' = start_seconds]_vars

\* the end slider was dragged to the left end while start was in the middle
C11_Witness ==
    /\ last_op.name = "update_end_time_from_slider"
    /\ last_op.adjusted
    /\ duration_seconds >= TicksPerSecond
    /\ 0 < start_seconds
    /\ end_seconds = start_seconds + Epsilon
    /\ end_seconds < duration_seconds

\* ----------------------------------------------------------- concurrency
\* the calls of run_ffmpeg_cut whose transcoder process is running
InFlight == {i \in DOMAIN runs : runs[i].proc = "running"}

\* C12 as claimed: at every moment at most one transcoder process started
\* by the session is running.
C12_Claimed == Cardinality(InFlight) <= 1

\* C13 as claimed: every call of run_ffmpeg_cut, from a worker thread or
\* from the batch, that spawns its process has 0 <= start_time < end_time.
C13_Claimed ==
    \A i \in DOMAIN runs :
        runs[i].spawned >= 1 =>
            /\ 0 <= runs[i].start_time
            /\ runs[i].start_time < runs[i].end_time

\* ---------------------------------------------------------------- failures
\* C14 as claimed: a cut of a worker thread that ended in failure has
\* shown its diagnostic to the user.
C14_Claimed ==
    \A i \in Threads :
        runs[i].pc = "failed" =>
            \E k \in 1..Len(shown) : shown[k] = runs[i].raised

\* C16 as claimed: a press of Cut Media that validate_inputs refuses for
\* the order or the bounds of the range leaves start, end and duration as they
\* were.
C16_Claimed ==
    [][(/\ last_op'.name = "start_cutting_thread"
        /\ ~last_op'.result
        /\ shown' \in {<<MsgOrder>>, <<MsgBounds>>}
        /\ \E t \in EntryContents(CutTexts), x \in BOOLEAN :
               start_cutting_thread(t, x)) =>
          /\ start_seconds' = start_seconds
          /\ end_seconds' = end_seconds
          /\ duration_seconds' = duration_seconds]_vars

C17_Initialization ==
    [][\A f \in RangeFiles, p \in RangeProbes :
          (last_op'.name = "browse_input" /\ p.kind = "ok" /\ browse_input(f, p)) =>
              /\ duration_seconds' = p.duration
              /\ start_seconds' = 0
              /\ end_seconds' = p.duration
              /\ start_time_entry' = format_time(Some(0))
              /\ end_time_entry' = format_time(Some(p.duration))]_vars

\* a media of 1 s or more was loaded and nothing was edited since
C17_Witness ==
    /\ last_op.name = "browse_input"
    /\ duration_seconds >= TicksPerSecond
    /\ start_seconds = 0
    /\ end_seconds = duration_seconds
    /\ ui["cut_button"] = "normal"

\* ------------------------------------------------------------------ decode
FieldCount(text) == Cardinality({i \in 1..Len(text) : text[i] = ":"}) + 1

\* a component that is empty or has a character that is no digit
NonNumeric(component) ==
    \/ component = <<>>
    \/ \E i \in 1..Len(component) : ~IsDigit(component[i])

\* C18 as claimed: parse_time returns None for every text that has not
\* exactly three fields, and for every text whose hours, minutes, seconds or
\* fraction (what follows the point of the third field) is not a number.
C18_Claimed ==
    codec.pc = "parsed" =>
        /\ FieldCount(codec.text) # 3 => codec.decoded = None
        /\ \A h \in NumberFields \cup OtherFields, m \in NumberFields \cup OtherFields,
              s \in NumberFields \cup OtherFields, x \in Suffixes :
               (/\ codec.text = TimeText(h, m, s, x)
                /\ \/ NonNumeric(h)
                   \/ NonNumeric(m)
                   \/ NonNumeric(s)
                   \/ x # <<>> /\ NonNumeric(Tail(x)))
               => codec.decoded = None

\* the milliseconds a fraction of digits denotes: its first three digits,
\* zeros standing for the digits it lacks
FractionMillis(f) ==
    100 * DigitVal(f[1])
    + (IF Len(f) >= 2 THEN 10 * DigitVal(f[2]) ELSE 0)
    + (IF Len(f) >= 3 THEN DigitVal(f[3]) ELSE 0)

\* C19 as claimed: a fraction of more than 3 digits decodes to the
\* milliseconds its first three digits spell, leading zeros included.
C19_Claimed ==
    codec.pc = "parsed" =>
        \A b \in Bases, f \in Fractions :
            (codec.text = b.text \o <<".">> \o f /\ Len(f) > 3) =>
                codec.decoded = Some(b.ticks + FractionMillis(f) * TicksPerMs)

\* C20 as claimed: a fraction of 1 or 2 digits decodes as if padded with
\* zeros on the right to 3 digits.
C20_Claimed ==
    codec.pc = "parsed" =>
        \A b \in Bases, f \in Fractions :
            (codec.text = b.text \o <<".">> \o f /\ Len(f) <= 2) =>
                codec.decoded = Some(b.ticks + FractionMillis(f) * TicksPerMs)

\* ------------------------------------------------------------------ encode
\* a text of two decimal digits spelling a number of 00..59
IsSexagesimal(field) ==
    /\ Len(field) = 2
    /\ IsDigit(field[1]) /\ IsDigit(field[2])
    /\ DigitVal(field[1]) <= 5

\* text has the form HH:MM:SS.mmm: hours of two digits or more, minutes and
\* seconds in 00..59, milliseconds of three digits
IsDisplayTime(text) ==
    LET n == Len(text)
    IN  /\ n >= 12
        /\ \A k \in 1..(n - 10) : IsDigit(text[k])
        /\ text[n - 9] = ":"
        /\ IsSexagesimal(SubSeq(text, n - 8, n - 7))
        /\ text[n - 6] = ":"
        /\ IsSexagesimal(SubSeq(text, n - 5, n - 4))
        /\ text[n - 3] = "."
        /\ \A k \in (n - 2)..n : IsDigit(text[k])

\* C21: format_time returns "00:00:00.000" for None and for a negative
\* input; for every input >= 0 it returns a text HH:MM:SS.mmm with hours of at
\* least two digits, minutes and seconds in 00..59 and milliseconds in
\* 000..999.
C21_EncodeShape ==
    codec.pc = "encoded" =>
        /\ (codec.seconds = None \/ codec.seconds[1] < 0) => codec.text = ZeroText
        /\ (codec.seconds # None /\ codec.seconds[1] >= 0) => IsDisplayTime(codec.text)

\* a duration of more than 100 h and 9 whole ms was encoded: three hour digits
C21_Witness ==
    /\ codec.pc = "encoded"
    /\ codec.seconds # None
    /\ codec.seconds[1] > 360000000 * TicksPerMs
    /\ Len(codec.text) = 13
    /\ SubSeq(codec.text, 1, 3) = <<"1", "0", "0">>
    /\ IsDisplayTime(codec.text)

\* ------------------------------------------------------------ recent files
NoDuplicates(l) == \A i, j \in 1..Len(l) : i # j => l[i] # l[j]

\* l without every occurrence of x
RECURSIVE Without(_, _)
Without(l, x) ==
    IF Len(l) = 0 THEN <<>>
    ELSE IF Head(l) = x THEN Without(Tail(l), x)
    ELSE <<Head(l)>> \o Without(Tail(l), x)

IsPrefix(a, b) == Len(a) <= Len(b) /\ SubSeq(b, 1, Len(a)) = a

\* C22 as claimed: after add_recent_file(p) from any list loaded from the
\* document and any adds before, p is at index 0, no path is in the list twice,
\* the list has at most 10 entries, and the other entries kept are in the
\* order they were in.
C22_Claimed ==
    [][\A p \in RecentPaths, w \in BOOLEAN :
          (last_op'.name = "add_recent_file" /\ add_recent_file(p, w)) =>
              /\ recent_files'[1] = p
              /\ NoDuplicates(recent_files')
              /\ Len(recent_files') <= RecentCapacity
              /\ IsPrefix(Without(Tail(recent_files'), p),
                          Without(recent_files, p))]_vars

\* --------------------------------------------------------- text and bounds
\* C23 as claimed, for a media of 1 s or more: a commit of a valid start
\* text, the end field holding what the program wrote, sets start to the
\* decoded value and leaves end exactly as stored; a commit of a valid end
\* text sets end and leaves start exactly as stored.
C23_Claimed ==
    [][\A t \in RangeTexts :
          /\ (/\ last_op'.name = "update_times_from_entry"
              /\ duration_seconds >= TicksPerSecond
              /\ ~Rejected(t)
              /\ entry_committed(<<t, end_time_entry>>)) =>
                 /\ start_seconds' = parse_time(t)[1]
                 /\ end_seconds' = end_seconds
          /\ (/\ last_op'.name = "update_times_from_entry"
              /\ duration_seconds >= TicksPerSecond
              /\ ~Rejected(t)
              /\ entry_committed(<<start_time_entry, t>>)) =>
                 /\ end_seconds' = parse_time(t)[1]
                 /\ start_seconds' = start_seconds]_vars

\* ----------------------------------------------------------------- setters
\* C24 as claimed, for a media of 1 s or more: whatever value
\* update_start_time_from_slider or update_end_time_from_slider is given, the
\* bound it sets ends up inside [0, mediaDuration].
C24_Claimed ==
    duration_seconds >= TicksPerSecond =>
        /\ last_op.name = "update_start_time_from_slider" =>
               0 <= start_seconds /\ start_seconds <= duration_seconds
        /\ last_op.name = "update_end_time_from_slider" =>
               0 <= end_seconds /\ end_seconds <= duration_seconds

\* ----------------------------------------------------------- status lines
\* the status lines without a time= token followed by a time that decodes
UnusableLines == {NoTokenLine, UndecodableLine, EmptyTokenLine}

\* C25 as claimed: a status line without a usable time= token gives no
\* progress update, raises nothing and does not end the run: the call is still
\* in its read loop after it.
C25_Claimed ==
    [][\A l \in UnusableLines :
          (runs[0].pc = "running" /\ read_line(0, l)) =>
              /\ runs'[0].pc = "running"
              /\ runs'[0].raised = ""
              /\ runs'[0].progress = None
              /\ progress_bar' = progress_bar]_vars

\* --------------------------------------------------------------- isolation
\* a step of a worker thread, or of the process it started
WorkerStep ==
    \E i \in Threads : runs[i].pc \in {"idle", "running"} /\ runs'[i] # runs[i]

\* C26: no step of a worker thread writes start_seconds, end_seconds or
\* duration_seconds; the start_time and end_time of its call are the
\* start_seconds and end_seconds that validate_inputs accepted when Cut Media
\* was pressed, they never change afterwards, whatever happens to the range
\* state, and they are the times of the command given to the process.
C26_WorkerIsolation ==
    /\ [][WorkerStep =>
             UNCHANGED <<start_seconds, end_seconds, duration_seconds>>]_vars
    /\ [][\A i \in Threads :
             /\ (runs[i].pc = "none" /\ runs'[i].pc # "none") =>
                    /\ runs'[i].start_time = start_seconds'
                    /\ runs'[i].end_time = end_seconds'
             /\ runs[i].pc # "none" =>
                    /\ runs'[i].start_time = runs[i].start_time
                    /\ runs'[i].end_time = runs[i].end_time]_vars
    /\ [](\A i \in Threads :
             runs[i].spawned >= 1 =>
                 /\ run_command(runs[i])[6] = Num(runs[i].start_time)
                 /\ run_command(runs[i])[8] =
                        Num(runs[i].end_time - runs[i].start_time))

\* the process of a cut of 1 ms to 4 ms is running, and Control-o has loaded
\* a media since: the range state is back at 0 to the duration
C26_Witness ==
    /\ runs[1].pc = "running"
    /\ runs[1].proc = "running"
    /\ runs[1].start_time = TicksPerMs
    /\ runs[1].end_time = 4 * TicksPerMs
    /\ last_op.name = "browse_input"
    /\ start_seconds = 0
    /\ start_seconds # runs[1].start_time

\* ------------------------------------------------------------ probe failure
\* C27 as claimed: a load whose duration probe fails sets duration_seconds
\* to 0, and while the source whose probe failed is the loaded one no control
\* starts a call of run_ffmpeg_cut on it.
C27_Claimed ==
    [][/\ \A f \in InputFiles, p \in CutProbes :
              (last_op'.name = "browse_input" /\ p.kind # "ok" /\ browse_input(f, p))
                  => duration_seconds' = 0
       /\ \A i \in DOMAIN runs :
              (/\ duration_seconds = 0
               /\ input_file # NoPath
               /\ runs'[i].pc = "idle"
               /\ runs'[i] # runs[i]) => runs'[i].input_path # input_file]_vars

\* ----------------------------------------------------------------- teardown
\* C28 as claimed: once the session is torn down, no process started by a
\* cut of a worker thread is running.
C28_Claimed == Closed => \A i \in Threads : runs[i].proc # "running"

\* ------------------------------------------------------------ after the cut
\* C29 as claimed: after a cut of a worker thread has reached its terminal
\* outcome, the controls that start_cutting_thread disabled are eventually
\* enabled again.
C29_Claimed ==
    (\E i \in Threads : Terminal(runs[i])) ~> (\A w \in Widgets : ui[w] = "normal")

\* C30 as claimed: once the process of a cut has exited and closed its
\* status stream, the call of run_ffmpeg_cut eventually ends, returning or
\* raising, with the exit status of the process known to it.
C30_Claimed ==
    \A i \in Threads : (runs[i].proc = "exited") ~> Judged(runs[i])

====
